---- MODULE Spec2Model ----
(***************************************************************************)
(* Model of the PMX decoder of pmx_rs (src/src/reader.rs).                 *)
(*                                                                         *)
(* The byte stream handed to Reader::new is revealed as it is read: every  *)
(* decoder action draws the control-relevant bytes of the record it reads  *)
(* (tags, counts, flag words, string lengths) from small sample sets, and  *)
(* draws how many bytes the stream still holds, so that read_exact can hit *)
(* the end of the stream inside any field.  Bytes that never influence     *)
(* control flow (floats, string contents) are consumed but not valued.     *)
(***************************************************************************)
EXTENDS Integers, Sequences, FiniteSets, TLC

VARIABLES
    pc,         \* the decoder that runs next: a section name, "index" or "done"
    left,       \* records still to decode in the current section; -1: count not read yet
    this,       \* the Reader's fields: encoding, extended_uv and the six scratch buffer lengths
    ret,        \* what Reader::read returned: [tag, what]; tag "none" while it runs
    log,        \* the reads and checks the last action executed, in order
    rec,        \* the value the last action decoded (its control-relevant fields), or NoRec
    started,    \* the decoders that have begun, in order
    pmx_materials,  \* index_count of every Material decoded so far
    pstat,      \* outcome of decoding a proper prefix of the same stream ("off": not tracked)
    unread      \* bytes of the stream left unread when read returned Ok; 0 until then

vars == <<pc, left, this, ret, log, rec, started, pmx_materials, pstat, unread>>

----------------------------------------------------------------------------
(* Bounds and sample sets of the inputs.                                   *)

\* largest element count drawn for a section
MaxCount == 1
\* largest element count drawn for a loop nested in a record
MaxInner == 1

\* most bytes drawn to follow the last byte read
MaxUnread == 1

StrLens == {0, 3}
Counts == 0..MaxCount
InnerCounts == 0..MaxInner

NoRec == [type |-> "none"]
NoRet == [tag |-> "none", what |-> ""]

----------------------------------------------------------------------------
(* Error, and the conversions into it.                                     *)

Ok == [tag |-> "Ok", what |-> ""]
InvalidData(what) == [tag |-> "InvalidData", what |-> what]
Panic(what) == [tag |-> "panic", what |-> what]

\* a variant of From<std::io::Error> that reports the end of the stream as a
\* structural error
FromIoError_invalid == [tag |-> "InvalidData", what |-> "UnexpectedEof"]

\* impl From<std::io::Error> for Error
FromIoError == [tag |-> "Io", what |-> "UnexpectedEof"]

----------------------------------------------------------------------------
(* Steps of a decoder.  A decoder is modelled by the sequence of steps it  *)
(* goes through on a given input: reads of n bytes (one read_exact call    *)
(* each), ending with the check that rejects the input, if one does.       *)

\* v is the value the bytes hold where it decides what is read next, Dont (do not care) elsewhere
Dont == "-"
Rd(what, n, v) == [k |-> "rd", what |-> what, n |-> n, v |-> v]
Bad(what) == [k |-> "bad", what |-> what, n |-> 0, v |-> Dont]
Abort(what) == [k |-> "abort", what |-> what, n |-> 0, v |-> Dont]

read_u8(what, v) == <<Rd(what, 1, v)>>
read_u16(what, v) == <<Rd(what, 2, v)>>
read_u32(what, v) == <<Rd(what, 4, v)>>
read_i32(what, v) == <<Rd(what, 4, v)>>
read_f32 == <<Rd("f32", 4, Dont)>>
\* N calls of read_f32, none of which can fail but by the end of the stream:
\* taken as one read of 4 * N bytes
read_vec(N) == <<Rd("vec", 4 * N, Dont)>>
read_vec2 == read_vec(2)
read_vec3 == read_vec(3)
read_vec4 == read_vec(4)

\* read_string: the length, the bytes, then the decoding.  With Utf16 the byte
\* buffer is reinterpreted as *const u16; an empty Vec<u8> holds the dangling
\* pointer 0x1, which is misaligned for u16, so slice::from_raw_parts is
\* undefined: a build that checks unsafe preconditions aborts there (ub), another
\* goes on with an empty slice.
read_string(len, t, ub) ==
    <<Rd("str_len", 4, len), Rd("str", len, Dont)>>
    \o (IF t.encoding = "Utf16" /\ len = 0 /\ ub
        THEN <<Abort("from_raw_parts")>> ELSE <<>>)

\* the outcomes of the undefined behaviour for a record whose strings have lengths lens
Ub(t, lens) == IF t.encoding = "Utf16" /\ 0 \in lens THEN BOOLEAN ELSE {FALSE}

\* the index decoders read exactly their scratch buffer
read_vertex_index_steps(t) == <<Rd("vertex_index", t.vertex_index, Dont)>>
read_texture_index_steps(t) == <<Rd("tex_index", t.tex_index, Dont)>>
read_material_index_steps(t) == <<Rd("mat_index", t.mat_index, Dont)>>
read_bone_index_steps(t) == <<Rd("bone_index", t.bone_index, Dont)>>
read_morph_index_steps(t) == <<Rd("morph_index", t.morph_index, Dont)>>
read_rigid_index_steps(t) == <<Rd("rig_index", t.rig_index, Dont)>>

\* the steps up to the first one that fails, none after it
RECURSIVE Cut(_)
Cut(prog) ==
    IF prog = <<>> THEN <<>>
    ELSE IF Head(prog).k # "rd" THEN <<Head(prog)>>
    ELSE <<Head(prog)>> \o Cut(Tail(prog))

RECURSIVE Bytes(_)
Bytes(prog) == IF prog = <<>> THEN 0 ELSE Head(prog).n + Bytes(Tail(prog))

\* read_bin / read_exact: a read of n bytes fails when fewer than n remain, and
\* the failure is converted by `?` through From<std::io::Error>.
\* Exec runs the steps against a stream that holds `avail` more bytes.
RECURSIVE Exec(_, _, _)
Exec(prog, avail, done) ==
    IF prog = <<>> THEN [ret |-> Ok, log |-> done]
    ELSE LET s == Head(prog) IN
         CASE s.k = "bad" -> [ret |-> InvalidData(s.what), log |-> Append(done, s)]
           [] s.k = "abort" -> [ret |-> Panic(s.what), log |-> Append(done, s)]
           [] OTHER ->
                IF s.n > avail
                THEN [ret |-> FromIoError,
                      log |-> Append(done, [s EXCEPT !.k = "eof", !.v = Dont])]
                ELSE Exec(Tail(prog), avail - s.n, Append(done, s))

Chk(cond, what) == IF cond THEN <<>> ELSE <<Bad(what)>>

\* How many bytes the stream may still hold for a read of the record to fail:
\* one sample for every read, the stream ending one byte short of its end.
EofPoints(prog) ==
    LET c == Cut(prog) IN
    {Bytes(SubSeq(c, 1, j)) - 1 : j \in {i \in 1..Len(c) : c[i].k = "rd" /\ c[i].n > 0}}

----------------------------------------------------------------------------
(* Header.                                                                 *)

PMX == <<80, 77, 88, 32>>
MagicSamples == {PMX, <<80, 77, 88, 0>>, <<112, 109, 120, 32>>}
\* f32 bit patterns: 2.0, 0.0, a NaN, 1.0e9
VersionSamples == {<<0, 0, 0, 64>>, <<0, 0, 0, 0>>, <<255, 255, 255, 255>>}
BytesSamples == {8, 0, 9}
EncodingSamples == {0, 1, 2}
ExtendedUvSamples == {0, 5}
IndexSizes == {1, 2, 4}
IndexSizeSamples == {0, 3, 5, 8, 255}
Kinds == 1..6
\* the six width bytes (vertex, texture, material, bone, morph, rigid): three
\* tuples in which every kind takes every width and any two kinds differ somewhere,
\* and those with one byte replaced
IndexSizeTuples ==
    LET good == {<<1, 2, 4, 2, 4, 1>>, <<2, 4, 1, 1, 2, 4>>, <<4, 1, 2, 4, 1, 2>>}
    IN  good \cup {[g EXCEPT ![i] = a] : g \in good, i \in Kinds, a \in IndexSizeSamples}

HeaderSamples ==
    [magic : MagicSamples, version : VersionSamples, bytes : BytesSamples,
     encoding : EncodingSamples, extended_uv : ExtendedUvSamples,
     sizes : IndexSizeTuples]

\* a variant of read_index_size that lets the width 3 through
read_index_size_3(v) == read_u8("index_size", v) \o Chk(v \in 1..4, "read_index_size")

read_index_size(v) == read_u8("index_size", v) \o Chk(v \in {1, 2, 4}, "read_index_size")

header_steps(h) ==
    <<Rd("magic", 4, h.magic)>>
    \o Chk(h.magic = PMX, "magic number")
    \o <<Rd("version", 4, h.version)>>
    \o read_u8("bytes", h.bytes)
    \o Chk(h.bytes = 8, "header::bytes")
    \o read_u8("encoding", h.encoding)
    \o Chk(h.encoding \in {0, 1}, "header::encoding")
    \o read_u8("extended_uv", h.extended_uv)
    \o read_index_size(h.sizes[1])
    \o read_index_size(h.sizes[2])
    \o read_index_size(h.sizes[3])
    \o read_index_size(h.sizes[4])
    \o read_index_size(h.sizes[5])
    \o read_index_size(h.sizes[6])

\* the Header value of a stream that passed header_steps
header_value(h) ==
    [type |-> "Header",
     version |-> h.version,
     encoding |-> IF h.encoding = 0 THEN "Utf16" ELSE "Utf8",
     extended_uv |-> h.extended_uv,
     vertex_index_size |-> h.sizes[1],
     texture_index_size |-> h.sizes[2],
     material_index_size |-> h.sizes[3],
     bone_index_size |-> h.sizes[4],
     morph_index_size |-> h.sizes[5],
     rigid_index_size |-> h.sizes[6]]

\* Reader::new
NewReader ==
    [encoding |-> "Utf16", extended_uv |-> 0, vertex_index |-> 0, tex_index |-> 0,
     mat_index |-> 0, bone_index |-> 0, morph_index |-> 0, rig_index |-> 0]

\* a variant of the configuration that sizes the texture buffer by the
\* material width and the material buffer by the texture width
Configure_swapped(header) ==
    [encoding |-> header.encoding,
     extended_uv |-> header.extended_uv,
     vertex_index |-> header.vertex_index_size,
     tex_index |-> header.material_index_size,
     mat_index |-> header.texture_index_size,
     bone_index |-> header.bone_index_size,
     morph_index |-> header.morph_index_size,
     rig_index |-> header.rigid_index_size]

\* Reader::read, lines 52-59: the session is configured from the header
Configure(header) ==
    [encoding |-> header.encoding,
     extended_uv |-> header.extended_uv,
     vertex_index |-> header.vertex_index_size,
     tex_index |-> header.texture_index_size,
     mat_index |-> header.material_index_size,
     bone_index |-> header.bone_index_size,
     morph_index |-> header.morph_index_size,
     rig_index |-> header.rigid_index_size]

----------------------------------------------------------------------------
(* Reader::read: the order of the decoders.                                *)

Order == <<"header", "model_info", "vertices", "faces", "textures", "materials",
           "bones", "morphs", "display_groups", "rigids", "joints">>

\* a variant of the struct literal with the textures evaluated before the faces
After_swapped(sec) ==
    CASE sec = "header" -> "model_info"
      [] sec = "model_info" -> "vertices"
      [] sec = "vertices" -> "textures"
      [] sec = "textures" -> "faces"
      [] sec = "faces" -> "materials"
      [] sec = "materials" -> "bones"
      [] sec = "bones" -> "morphs"
      [] sec = "morphs" -> "display_groups"
      [] sec = "display_groups" -> "rigids"
      [] sec = "rigids" -> "joints"
      [] sec = "joints" -> "done"

\* a variant of the struct literal that leaves the joints out
After_no_joints(sec) ==
    CASE sec = "header" -> "model_info"
      [] sec = "model_info" -> "vertices"
      [] sec = "vertices" -> "faces"
      [] sec = "faces" -> "textures"
      [] sec = "textures" -> "materials"
      [] sec = "materials" -> "bones"
      [] sec = "bones" -> "morphs"
      [] sec = "morphs" -> "display_groups"
      [] sec = "display_groups" -> "rigids"
      [] sec = "rigids" -> "done"
      [] sec = "joints" -> "done"

\* the decoder the struct literal of Reader::read evaluates after `sec`
After(sec) ==
    CASE sec = "header" -> "model_info"
      [] sec = "model_info" -> "vertices"
      [] sec = "vertices" -> "faces"
      [] sec = "faces" -> "textures"
      [] sec = "textures" -> "materials"
      [] sec = "materials" -> "bones"
      [] sec = "bones" -> "morphs"
      [] sec = "morphs" -> "display_groups"
      [] sec = "display_groups" -> "rigids"
      [] sec = "rigids" -> "joints"
      [] sec = "joints" -> "done"

\* One decoder call on the stream: the steps `prog` run against a stream that
\* holds `avail` more bytes.  On success the decoded value is kept and the
\* next decoder is scheduled; on failure `?` returns the error from read.
\* Beside the stream, a proper prefix of it may be followed (pstat = "live"):
\* while the stream goes on, the prefix may end inside this record, e bytes
\* from here, and pstat becomes what the same steps return on it.
Run(prog, value, npc, nleft, nmat) ==
    \E who \in IF pstat = "live" THEN {"stream", "prefix"} ELSE {"stream"} :
        \E e \in IF who = "stream" THEN {Bytes(prog)} \cup EofPoints(prog) ELSE EofPoints(prog) :
            LET avail == IF who = "stream" THEN e ELSE Bytes(prog)
                r == Exec(prog, avail, <<>>)
            IN  /\ log' = r.log
                /\ IF r.ret = Ok
                   THEN /\ pc' = npc
                        /\ left' = nleft
                        /\ rec' = value
                        /\ pmx_materials' = nmat
                        /\ ret' = IF npc = "done" THEN Ok ELSE NoRet
                        /\ IF npc = "done" THEN unread' \in 0..MaxUnread
                           ELSE unread' = unread
                   ELSE /\ pc' = "done"
                        /\ left' = -1
                        /\ rec' = NoRec
                        /\ pmx_materials' = <<>>
                        /\ ret' = r.ret
                        /\ unread' = unread
                /\ pstat' = IF who = "prefix" THEN Exec(prog, e, <<>>).ret.tag ELSE pstat

\* a section's element count, then that many records
SectionLen(sec) ==
    /\ left = -1 /\ ret = NoRet
    /\ started' = Append(started, sec)
    /\ this' = this
    /\ \E len \in Counts :
          Run(read_u32("len", len), [type |-> "len", len |-> len],
              IF len = 0 THEN After(sec) ELSE sec,
              IF len = 0 THEN -1 ELSE len, pmx_materials)

\* one record of a section
Record(sec, prog, value, nmat) ==
    /\ pc = sec /\ left > 0 /\ ret = NoRet
    /\ started' = started
    /\ this' = this
    /\ Run(prog, value,
           IF left = 1 THEN After(sec) ELSE sec,
           IF left = 1 THEN -1 ELSE left - 1, nmat)

header ==
    /\ pc = "header" /\ ret = NoRet
    /\ started' = Append(started, "header")
    /\ \E h \in HeaderSamples :
          /\ Run(header_steps(h), header_value(h), After("header"), -1, pmx_materials)
          /\ this' = IF ret' = NoRet THEN Configure(header_value(h)) ELSE this

----------------------------------------------------------------------------
(* Model info.                                                             *)

model_info_steps(s, t, ub) ==
    read_string(s[1], t, ub) \o read_string(s[2], t, ub)
    \o read_string(s[3], t, ub) \o read_string(s[4], t, ub)

model_info ==
    /\ pc = "model_info" /\ ret = NoRet
    /\ started' = Append(started, "model_info")
    /\ this' = this
    /\ \E s \in [1..4 -> StrLens], ub \in BOOLEAN :
          /\ ub \in Ub(this, {s[i] : i \in 1..4})
          /\ Run(model_info_steps(s, this, ub), [type |-> "ModelInfo"],
                 After("model_info"), -1, pmx_materials)

----------------------------------------------------------------------------
(* Vertices, faces, textures.                                              *)

RECURSIVE Flat(_)
Flat(ss) == IF ss = <<>> THEN <<>> ELSE Head(ss) \o Flat(Tail(ss))

Repeat(n, steps) == Flat([i \in 1..n |-> steps])

WeightSamples == {0, 1, 2, 3, 4, 255}

vertex_steps(weight, t) ==
    read_vec3 \o read_vec3 \o read_vec2
    \o Repeat(t.extended_uv, read_vec4)
    \o read_u8("vertex::weight", weight)
    \o (CASE weight = 0 -> read_bone_index_steps(t)
          [] weight = 1 -> read_bone_index_steps(t) \o read_bone_index_steps(t) \o read_f32
          [] weight = 2 -> Repeat(4, read_bone_index_steps(t)) \o Repeat(4, read_f32)
          [] weight = 3 -> read_bone_index_steps(t) \o read_bone_index_steps(t) \o read_f32
                           \o read_vec3 \o read_vec3 \o read_vec3
          [] OTHER -> <<Bad("vertex::weight")>>)
    \o read_f32

vertex_value(weight, t) ==
    [type |-> "Vertex", extended_uv |-> t.extended_uv, weight |-> weight]

vertices == pc = "vertices" /\ SectionLen("vertices")

vertex ==
    \E weight \in WeightSamples :
        Record("vertices", vertex_steps(weight, this), vertex_value(weight, this), pmx_materials)

faces == pc = "faces" /\ SectionLen("faces")

\* one entry of the face list
face == Record("faces", read_u32("face", Dont), [type |-> "face"], pmx_materials)

textures == pc = "textures" /\ SectionLen("textures")

texture ==
    \E len \in StrLens, ub \in BOOLEAN :
        /\ ub \in Ub(this, {len})
        /\ Record("textures", read_string(len, this, ub), [type |-> "PathBuf"],
                  pmx_materials)

----------------------------------------------------------------------------
(* Materials.                                                              *)

\* records are sampled around a base record, one field varied at a time
Vary(base, field, values) == {[base EXCEPT ![field] = v] : v \in values}

IndexCountSamples == {1, 3, 4}

MaterialSamples ==
    LET base == [name |-> 3, name_en |-> 3, sphere_mode |-> 0, toon |-> 1,
                 memo |-> 3, index_count |-> 3]
    IN  Vary(base, "name", StrLens) \cup Vary(base, "name_en", StrLens)
        \cup Vary(base, "memo", StrLens)
        \cup Vary(base, "sphere_mode", {0, 1, 2, 3, 4, 255})
        \cup Vary(base, "toon", {0, 1, 2})
        \cup Vary(base, "index_count", IndexCountSamples)

\* a variant of material that does not check the index count
material_steps_unchecked(m, t, ub) ==
    read_string(m.name, t, ub) \o read_string(m.name_en, t, ub)
    \o read_vec4 \o read_vec3 \o read_f32 \o read_vec3
    \o read_u8("flags", Dont)
    \o read_vec4 \o read_f32
    \o read_texture_index_steps(t) \o read_texture_index_steps(t)
    \o read_u8("material::sphere_mode", m.sphere_mode)
    \o Chk(m.sphere_mode \in 0..3, "material::sphere_mode")
    \o read_u8("material::toon", m.toon)
    \o (CASE m.toon = 0 -> read_texture_index_steps(t)
          [] m.toon = 1 -> read_u8("toon_shared", Dont)
          [] OTHER -> <<Bad("material::toon")>>)
    \o read_string(m.memo, t, ub)
    \o read_u32("index_count", m.index_count)

material_steps(m, t, ub) ==
    read_string(m.name, t, ub) \o read_string(m.name_en, t, ub)
    \o read_vec4 \o read_vec3 \o read_f32 \o read_vec3
    \o read_u8("flags", Dont)
    \o read_vec4 \o read_f32
    \o read_texture_index_steps(t) \o read_texture_index_steps(t)
    \o read_u8("material::sphere_mode", m.sphere_mode)
    \o Chk(m.sphere_mode \in 0..3, "material::sphere_mode")
    \o read_u8("material::toon", m.toon)
    \o (CASE m.toon = 0 -> read_texture_index_steps(t)
          [] m.toon = 1 -> read_u8("toon_shared", Dont)
          [] OTHER -> <<Bad("material::toon")>>)
    \o read_string(m.memo, t, ub)
    \o read_u32("index_count", m.index_count)
    \o Chk(m.index_count % 3 = 0, "material::index_count")

material_value(m) == [type |-> "Material", index_count |-> m.index_count]

materials == pc = "materials" /\ SectionLen("materials")

material ==
    \E m \in MaterialSamples, ub \in BOOLEAN :
        /\ ub \in Ub(this, {m.name, m.name_en, m.memo})
        /\ Record("materials", material_steps(m, this, ub), material_value(m),
                  Append(pmx_materials, m.index_count))

----------------------------------------------------------------------------
(* Bones.                                                                  *)

\* flags & mask == mask, for a one-bit mask
Bit(flags, mask) == (flags \div mask) % 2 = 1

\* sequences of at most MaxInner elements of S
Seqs(S) == UNION {[1..n -> S] : n \in InnerCounts}

\* 0x0001 0x0002 0x0020 0x0080 0x0100 0x0200 0x0400 0x0800 0x1000 0x2000 0xFFFF
FlagSamples == {0, 1, 2, 32, 128, 256, 512, 1024, 2048, 4096, 8192, 65535}

BoneSamples ==
    LET base == [name |-> 3, name_en |-> 3, flags |-> 0, external_parent |-> 7,
                 links |-> <<>>]
    IN  Vary(base, "name", StrLens) \cup Vary(base, "name_en", StrLens)
        \cup Vary(base, "flags", FlagSamples \ {32, 8192})
        \* the limits byte of a link: 0x01, and a value that is not 0x01
        \cup Vary([base EXCEPT !.flags = 32], "links", Seqs({1, 2}))
        \cup Vary([base EXCEPT !.flags = 8192], "external_parent", {-1, 0, 7})
        \cup Vary([base EXCEPT !.flags = 65535, !.links = <<1>>], "external_parent", {-1, 7})

ik_link_steps(limit, t) ==
    read_bone_index_steps(t)
    \o read_u8("ik_link::limits", limit)
    \o (IF limit = 1 THEN read_vec3 \o read_vec3 ELSE <<>>)

bone_steps(b, t, ub) ==
    read_string(b.name, t, ub) \o read_string(b.name_en, t, ub)
    \o read_vec3
    \o read_bone_index_steps(t)
    \o read_i32("deform_hierarchy", Dont)
    \o read_u16("bone::flags", b.flags)
    \o (IF Bit(b.flags, 1) THEN read_bone_index_steps(t) ELSE read_vec3)
    \o (IF Bit(b.flags, 256) \/ Bit(b.flags, 512)
        THEN read_bone_index_steps(t) \o read_f32 ELSE <<>>)
    \o (IF Bit(b.flags, 1024) THEN read_vec3 ELSE <<>>)
    \o (IF Bit(b.flags, 2048) THEN read_vec3 \o read_vec3 ELSE <<>>)
    \o (IF Bit(b.flags, 8192) THEN read_i32("external_parent", b.external_parent) ELSE <<>>)
    \o (IF Bit(b.flags, 32)
        THEN read_bone_index_steps(t) \o read_u32("loop_count", Dont) \o read_f32
             \o read_u32("link_len", Len(b.links))
             \o Flat([i \in 1..Len(b.links) |-> ik_link_steps(b.links[i], t)])
        ELSE <<>>)

\* the Bone: which of its optional fields are Some
\* a variant of bone without the .flatten(): the external parent is Some
\* whenever its bit is set
bone_value_unflattened(b) ==
    [type |-> "Bone",
     flags |-> b.flags,
     connected_to |-> IF Bit(b.flags, 1) THEN "Bone" ELSE "Offset",
     addition |-> Bit(b.flags, 256) \/ Bit(b.flags, 512),
     fixed_pole |-> Bit(b.flags, 1024),
     local_pole |-> Bit(b.flags, 2048),
     external_parent |-> Bit(b.flags, 8192),
     ik |-> Bit(b.flags, 32)]

bone_value(b) ==
    [type |-> "Bone",
     flags |-> b.flags,
     connected_to |-> IF Bit(b.flags, 1) THEN "Bone" ELSE "Offset",
     addition |-> Bit(b.flags, 256) \/ Bit(b.flags, 512),
     fixed_pole |-> Bit(b.flags, 1024),
     local_pole |-> Bit(b.flags, 2048),
     external_parent |-> Bit(b.flags, 8192) /\ b.external_parent >= 0,
     ik |-> Bit(b.flags, 32)]

bones == pc = "bones" /\ SectionLen("bones")

bone ==
    \E b \in BoneSamples, ub \in BOOLEAN :
        /\ ub \in Ub(this, {b.name, b.name_en})
        /\ Record("bones", bone_steps(b, this, ub), bone_value(b), pmx_materials)

----------------------------------------------------------------------------
(* Morphs.                                                                 *)

MorphSamples ==
    LET base == [name |-> 3, name_en |-> 3, panel |-> 0, kind |-> 0, ops |-> <<>>]
    IN  Vary(base, "name", StrLens) \cup Vary(base, "name_en", StrLens)
        \cup Vary(base, "panel", {0, 4, 5})
        \cup {[base EXCEPT !.kind = k, !.ops = o] :
                 k \in {0, 1, 2, 3, 4, 7, 9, 255}, o \in Seqs({0})}
        \cup {[base EXCEPT !.kind = 8, !.ops = o] : o \in Seqs({0, 1, 2})}

\* one element of a morph of kind `kind`; op is the material morph's operation byte
morph_element_steps(kind, op, t) ==
    CASE kind = 0 -> read_morph_index_steps(t) \o read_f32
      [] kind = 1 -> read_vertex_index_steps(t) \o read_vec3
      [] kind = 2 -> read_bone_index_steps(t) \o read_vec3 \o read_vec4
      [] kind \in 3..7 -> read_vertex_index_steps(t) \o read_vec4
      [] kind = 8 -> read_material_index_steps(t)
                     \o read_u8("morph::Material::op", op)
                     \o Chk(op \in {0, 1}, "morph::Material::op")
                     \o read_vec4 \o read_vec3 \o read_f32 \o read_vec3
                     \o read_vec4 \o read_f32 \o read_vec4 \o read_vec4 \o read_vec4

\* a variant of morph that matches the kind before it reads the element count
morph_steps_early(m, t, ub) ==
    read_string(m.name, t, ub) \o read_string(m.name_en, t, ub)
    \o read_u8("morph::panel", m.panel)
    \o Chk(m.panel \in 0..4, "morph::panel")
    \o read_u8("morph::kind", m.kind)
    \o (IF m.kind \in 0..8
        THEN read_u32("morph::len", Len(m.ops))
             \o Flat([i \in 1..Len(m.ops) |-> morph_element_steps(m.kind, m.ops[i], t)])
        ELSE <<Bad("morph::kind")>>)

\* m.ops holds one byte per element: the element count is its length
morph_steps(m, t, ub) ==
    read_string(m.name, t, ub) \o read_string(m.name_en, t, ub)
    \o read_u8("morph::panel", m.panel)
    \o Chk(m.panel \in 0..4, "morph::panel")
    \o read_u8("morph::kind", m.kind)
    \o read_u32("morph::len", Len(m.ops))
    \o (IF m.kind \in 0..8
        THEN Flat([i \in 1..Len(m.ops) |-> morph_element_steps(m.kind, m.ops[i], t)])
        ELSE <<Bad("morph::kind")>>)

morph_value(m) == [type |-> "Morph", kind |-> m.kind, len |-> Len(m.ops)]

morphs == pc = "morphs" /\ SectionLen("morphs")

morph ==
    \E m \in MorphSamples, ub \in BOOLEAN :
        /\ ub \in Ub(this, {m.name, m.name_en})
        /\ Record("morphs", morph_steps(m, this, ub), morph_value(m), pmx_materials)

----------------------------------------------------------------------------
(* Display groups, rigid bodies, joints.                                   *)

DisplayGroupSamples ==
    LET base == [name |-> 3, name_en |-> 3, elements |-> <<>>]
    IN  Vary(base, "name", StrLens) \cup Vary(base, "name_en", StrLens)
        \cup Vary(base, "elements", Seqs({0, 1, 2}))

display_element_steps(e, t) ==
    read_u8("display_group::elements", e)
    \o (CASE e = 0 -> read_bone_index_steps(t)
          [] e = 1 -> read_morph_index_steps(t)
          [] OTHER -> <<Bad("display_group::elements")>>)

display_group_steps(g, t, ub) ==
    read_string(g.name, t, ub) \o read_string(g.name_en, t, ub)
    \o read_u8("special", Dont)
    \o read_u32("elements_len", Len(g.elements))
    \o Flat([i \in 1..Len(g.elements) |-> display_element_steps(g.elements[i], t)])

display_groups == pc = "display_groups" /\ SectionLen("display_groups")

display_group ==
    \E g \in DisplayGroupSamples, ub \in BOOLEAN :
        /\ ub \in Ub(this, {g.name, g.name_en})
        /\ Record("display_groups", display_group_steps(g, this, ub),
                  [type |-> "DisplayGroup", len |-> Len(g.elements)], pmx_materials)

RigidSamples ==
    LET base == [name |-> 3, name_en |-> 3, shape |-> 0, method |-> 0]
    IN  Vary(base, "name", StrLens) \cup Vary(base, "name_en", StrLens)
        \cup Vary(base, "shape", {0, 1, 2, 3}) \cup Vary(base, "method", {0, 1, 2, 3})

rigid_steps(r, t, ub) ==
    read_string(r.name, t, ub) \o read_string(r.name_en, t, ub)
    \o read_bone_index_steps(t)
    \o read_u8("group", Dont)
    \o read_u16("non_collision_groups", Dont)
    \o read_u8("rigid::shape", r.shape)
    \o Chk(r.shape \in 0..2, "rigid::shape")
    \o read_vec3 \o read_vec3 \o read_vec3
    \o read_f32 \o read_f32 \o read_f32 \o read_f32 \o read_f32
    \o read_u8("rigid::method", r.method)
    \o Chk(r.method \in 0..2, "rigid::method")

rigids == pc = "rigids" /\ SectionLen("rigids")

rigid ==
    \E r \in RigidSamples, ub \in BOOLEAN :
        /\ ub \in Ub(this, {r.name, r.name_en})
        /\ Record("rigids", rigid_steps(r, this, ub), [type |-> "Rigid"], pmx_materials)

JointSamples ==
    LET base == [name |-> 3, name_en |-> 3, t |-> 0]
    IN  Vary(base, "name", StrLens) \cup Vary(base, "name_en", StrLens)
        \cup Vary(base, "t", {0, 1, 255})

joint_steps(j, t, ub) ==
    read_string(j.name, t, ub) \o read_string(j.name_en, t, ub)
    \o read_u8("joint::type", j.t)
    \o Chk(j.t = 0, "joint::type")
    \o read_rigid_index_steps(t) \o read_rigid_index_steps(t)
    \o Repeat(8, read_vec3)

joints == pc = "joints" /\ SectionLen("joints")

joint ==
    \E j \in JointSamples, ub \in BOOLEAN :
        /\ ub \in Ub(this, {j.name, j.name_en})
        /\ Record("joints", joint_steps(j, this, ub), [type |-> "Joint"], pmx_materials)

----------------------------------------------------------------------------
(* The decode of one stream.                                               *)

Init ==
    /\ pc = "header"
    /\ left = -1
    /\ this = NewReader
    /\ ret = NoRet
    /\ log = <<>>
    /\ rec = NoRec
    /\ started = <<>>
    /\ pmx_materials = <<>>
    /\ pstat = "off"
    /\ unread = 0

Next ==
    \/ header
    \/ model_info
    \/ vertices
    \/ vertex
    \/ faces
    \/ face
    \/ textures
    \/ texture
    \/ materials
    \/ material
    \/ bones
    \/ bone
    \/ morphs
    \/ morph
    \/ display_groups
    \/ display_group
    \/ rigids
    \/ rigid
    \/ joints
    \/ joint

Spec == Init /\ [][Next]_vars

\* the same decode, with a proper prefix of the stream decoded beside it
InitTrunc ==
    /\ pc = "header"
    /\ left = -1
    /\ this = NewReader
    /\ ret = NoRet
    /\ log = <<>>
    /\ rec = NoRec
    /\ started = <<>>
    /\ pmx_materials = <<>>
    /\ pstat = "live"
    /\ unread = 0

SpecTrunc == InitTrunc /\ [][Next]_vars

----------------------------------------------------------------------------
(* The index decoders, as functions of the bytes read into the scratch     *)
(* buffer of their kind.                                                   *)

None == [some |-> FALSE, v |-> 0]
Some(v) == [some |-> TRUE, v |-> v]

RECURSIVE Pow(_, _)
Pow(b, n) == IF n = 0 THEN 1 ELSE b * Pow(b, n - 1)

\* uN::from_le_bytes
RECURSIVE from_le_bytes_u(_)
from_le_bytes_u(buffer) ==
    IF buffer = <<>> THEN 0 ELSE Head(buffer) + 256 * from_le_bytes_u(Tail(buffer))

\* iN::from_le_bytes: the same bits as a two's-complement integer, the most
\* significant byte (the last) carrying the sign
from_le_bytes_i(buffer) ==
    LET n == Len(buffer)
        top == IF buffer[n] >= 128 THEN buffer[n] - 256 ELSE buffer[n]
    IN  top * Pow(256, n - 1) + from_le_bytes_u(SubSeq(buffer, 1, n - 1))

\* (v >= 0).then(|| v as usize)
NonNegative(v) == IF v >= 0 THEN Some(v) ELSE None

\* a variant of read_signed_index that decodes the widths 1 and 2 as unsigned
read_signed_index_unsigned(buffer) ==
    CASE Len(buffer) = 1 -> Some(from_le_bytes_u(buffer))
      [] Len(buffer) = 2 -> Some(from_le_bytes_u(buffer))
      [] Len(buffer) = 4 -> NonNegative(from_le_bytes_i(buffer))
      [] OTHER -> [some |-> FALSE, v |-> -1]

\* a variant of read_vertex_index that decodes every width as signed
read_vertex_index_signed(buffer) ==
    CASE Len(buffer) = 1 -> NonNegative(from_le_bytes_i(buffer))
      [] Len(buffer) = 2 -> NonNegative(from_le_bytes_i(buffer))
      [] Len(buffer) = 4 -> NonNegative(from_le_bytes_i(buffer))
      [] OTHER -> [some |-> FALSE, v |-> -1]

read_signed_index(buffer) ==
    CASE Len(buffer) = 1 -> NonNegative(from_le_bytes_i(buffer))
      [] Len(buffer) = 2 -> NonNegative(from_le_bytes_i(buffer))
      [] Len(buffer) = 4 -> NonNegative(from_le_bytes_i(buffer))
      [] OTHER -> [some |-> FALSE, v |-> -1]   \* unreachable!()

read_vertex_index(buffer) ==
    CASE Len(buffer) = 1 -> Some(from_le_bytes_u(buffer))
      [] Len(buffer) = 2 -> Some(from_le_bytes_u(buffer))
      [] Len(buffer) = 4 -> NonNegative(from_le_bytes_i(buffer))
      [] OTHER -> [some |-> FALSE, v |-> -1]   \* unreachable!()

ByteSamples == {0, 1, 127, 128, 255}

\* one call of an index decoder: the scratch buffer `field` is filled from the
\* stream and decoded (a call leaves nothing behind for the next one but the
\* buffer, which the next call overwrites: a behaviour holds one call)
ReadIndex(field, buffer, index) ==
    /\ pc = "index"
    /\ pc' = "done"
    /\ log' = <<Rd(field, Len(buffer), buffer)>>
    /\ rec' = [type |-> "index", field |-> field, buffer |-> buffer, index |-> index]
    /\ UNCHANGED <<left, this, ret, started, pmx_materials, pstat, unread>>

\* what read_exact may put into the scratch buffer `field`, whose length the
\* header fixed
Buffers(field) == [1..this[field] -> ByteSamples]

read_vertex_index_call ==
    \E buffer \in Buffers("vertex_index") :
        ReadIndex("vertex_index", buffer, read_vertex_index(buffer))
read_texture_index ==
    \E buffer \in Buffers("tex_index") :
        ReadIndex("tex_index", buffer, read_signed_index(buffer))
read_material_index ==
    \E buffer \in Buffers("mat_index") :
        ReadIndex("mat_index", buffer, read_signed_index(buffer))
read_bone_index ==
    \E buffer \in Buffers("bone_index") :
        ReadIndex("bone_index", buffer, read_signed_index(buffer))
read_morph_index ==
    \E buffer \in Buffers("morph_index") :
        ReadIndex("morph_index", buffer, read_signed_index(buffer))
read_rigid_index ==
    \E buffer \in Buffers("rig_index") :
        ReadIndex("rig_index", buffer, read_signed_index(buffer))

\* a session configured by a header that decoded
InitIndex ==
    /\ pc = "index"
    /\ left = -1
    /\ this \in {Configure(header_value(h)) :
                    h \in {x \in HeaderSamples : Exec(header_steps(x), Bytes(header_steps(x)), <<>>).ret = Ok}}
    /\ ret = NoRet
    /\ log = <<>>
    /\ rec = NoRec
    /\ started = <<"header">>
    /\ pmx_materials = <<>>
    /\ pstat = "off"
    /\ unread = 0

NextIndex ==
    \/ read_vertex_index_call
    \/ read_texture_index
    \/ read_material_index
    \/ read_bone_index
    \/ read_morph_index
    \/ read_rigid_index

SpecIndex == InitIndex /\ [][NextIndex]_vars

----------------------------------------------------------------------------
(* Properties.                                                             *)

\* the reads of the last action that got their bytes
Reads == {i \in DOMAIN log : log[i].k = "rd"}
HitEof == \E i \in DOMAIN log : log[i].k = "eof"
Failed == ret.tag \notin {"none", "Ok"}

\* the unsigned little-endian value of a byte string
LeValue(b) ==
    LET RECURSIVE sum(_)
        sum(i) == IF i > Len(b) THEN 0 ELSE b[i] * Pow(256, i - 1) + sum(i + 1)
    IN  sum(1)
\* the sign of the two's-complement value: the top bit of the last byte
Negative(b) == b[Len(b)] >= 128

SignedFields == {"tex_index", "mat_index", "bone_index", "morph_index", "rig_index"}

\* C1: at every width 1, 2, 4 set by the header, the texture, material, bone,
\* morph and rigid index decoders return None exactly when the little-endian
\* two's-complement value of the bytes is negative, and that value otherwise.
C1_SignedIndex ==
    (rec.type = "index" /\ rec.field \in SignedFields) =>
        /\ Len(rec.buffer) = this[rec.field]
        /\ Len(rec.buffer) \in {1, 2, 4}
        /\ rec.index.some <=> ~Negative(rec.buffer)
        /\ ~Negative(rec.buffer) => rec.index.v = LeValue(rec.buffer)

C1_Witness ==
    /\ rec.type = "index" /\ rec.field = "bone_index"
    /\ rec.buffer = <<1, 128>>
    /\ rec.index = None

\* C2: the vertex index decoder returns the unsigned value, never None, at
\* widths 1 and 2; at width 4 it returns None exactly when the signed 32-bit
\* value is negative, and that value otherwise.
C2_VertexIndex ==
    (rec.type = "index" /\ rec.field = "vertex_index") =>
        /\ Len(rec.buffer) = this.vertex_index
        /\ Len(rec.buffer) \in {1, 2} => rec.index = Some(LeValue(rec.buffer))
        /\ Len(rec.buffer) = 4 =>
              /\ rec.index.some <=> ~Negative(rec.buffer)
              /\ ~Negative(rec.buffer) => rec.index.v = LeValue(rec.buffer)

C2_Witness ==
    /\ rec.type = "index" /\ rec.field = "vertex_index"
    /\ rec.buffer = <<255, 255>>
    /\ rec.index = Some(65535)

\* the error a decoder returns for the step it stopped at
ErrorOf(step) ==
    CASE step.k = "eof" -> [tag |-> "Io", what |-> "UnexpectedEof"]
      [] step.k = "bad" -> [tag |-> "InvalidData", what |-> step.what]
      [] step.k = "abort" -> [tag |-> "panic", what |-> step.what]

\* C3: the header and the ten sections run strictly in the order model info,
\* vertices, faces, textures, materials, bones, morphs, display groups, rigid
\* bodies, joints; a section starts only after all earlier ones succeeded; the
\* first error is the result of the call, nothing is read after it, and no
\* model is returned.
C3_Order ==
    /\ [](/\ started = SubSeq(Order, 1, Len(started))
          /\ ret.tag = "Ok" => (started = Order /\ pc = "done")
          /\ Failed => /\ pc = "done"
                       /\ rec = NoRec /\ pmx_materials = <<>>
                       /\ ret = ErrorOf(log[Len(log)])
                       /\ \A i \in 1..(Len(log) - 1) : log[i].k = "rd")
    /\ [][/\ ret = NoRet
          /\ started' \in {started, Append(started, pc)}
          /\ Failed' => pc = started'[Len(started')]]_vars

C3_Witness ==
    /\ ret = InvalidData("material::toon")
    /\ started = SubSeq(Order, 1, 6)

\* C4: when a stream decodes successfully, decoding a proper prefix of it that
\* is shorter than what the decode consumed fails with Error::Io, never with
\* Error::InvalidData and never with a model.
C4_Truncation == (ret.tag = "Ok" /\ pstat # "live") => pstat = "Io"

C4_Witness == ret.tag = "Ok" /\ pstat = "Io" /\ unread = 0

TagFields == {"vertex::weight", "material::sphere_mode", "material::toon", "morph::kind",
              "display_group::elements", "rigid::shape", "rigid::method", "joint::type"}

Recognised(what) ==
    CASE what \in {"vertex::weight", "material::sphere_mode"} -> 0..3
      [] what \in {"material::toon", "display_group::elements"} -> {0, 1}
      [] what = "morph::kind" -> 0..8
      [] what \in {"rigid::shape", "rigid::method"} -> 0..2
      [] what = "joint::type" -> {0}

\* a tag byte was read and holds no recognised value
BadTags == {i \in Reads : log[i].what \in TagFields /\ log[i].v \notin Recognised(log[i].what)}

\* C5 as stated: whenever a variant tag byte is read with an unrecognised
\* value, the decode ends with Error::InvalidData naming that field, whatever
\* follows the tag in the stream, and no record or model is returned.
C5_Original ==
    \A i \in BadTags : ret = InvalidData(log[i].what) /\ rec = NoRec

\* C5 amended: the same, except that the morph kind is matched only after the
\* 4-byte element count that follows it has been read: when the stream ends
\* inside that count the decode ends with Error::Io instead.
C5_BadTag ==
    \A i \in BadTags :
        /\ rec = NoRec
        /\ ret.tag \notin {"none", "Ok"}
        /\ IF log[i].what = "morph::kind"
           THEN /\ i < Len(log) /\ log[i + 1].what = "morph::len"
                /\ IF log[i + 1].k = "rd"
                   THEN ret = InvalidData("morph::kind")
                   ELSE ret.tag = "Io"
           ELSE ret = InvalidData(log[i].what)

C5_Witness ==
    /\ \E i \in BadTags : log[i].what = "morph::kind" /\ log[i + 1].k = "rd"
    /\ ret = InvalidData("morph::kind")

\* the bytes a bone record takes: the fixed part, the connection, and the
\* payloads of the flag bits
BoneFixed(w) == (4 + log[1].v) + (4 + log[3].v) + 12 + w + 4 + 2
BoneLinks(w) ==
    LET L == {i \in Reads : log[i].what = "ik_link::limits"}
        RECURSIVE sum(_)
        sum(S) == IF S = {} THEN 0
                  ELSE LET i == CHOOSE x \in S : TRUE
                       IN  (w + 1 + IF log[i].v = 1 THEN 24 ELSE 0) + sum(S \ {i})
    IN  sum(L)
BonePayloads(f, w) ==
    (IF Bit(f, 1) THEN w ELSE 12)
    + (IF Bit(f, 256) \/ Bit(f, 512) THEN w + 4 ELSE 0)
    + (IF Bit(f, 1024) THEN 12 ELSE 0)
    + (IF Bit(f, 2048) THEN 24 ELSE 0)
    + (IF Bit(f, 8192) THEN 4 ELSE 0)
    + (IF Bit(f, 32) THEN w + 12 + BoneLinks(w) ELSE 0)
BoneFlags == log[CHOOSE i \in Reads : log[i].what = "bone::flags"].v
BoneBytes ==
    Bytes(log) = BoneFixed(this.bone_index) + BonePayloads(BoneFlags, this.bone_index)

\* C6 as stated: each optional sub-payload of a bone (addition, fixed pole,
\* local pole, external parent, IK) is Some exactly when its flag bit is set,
\* and the record consumes the fixed part plus the payloads of the set bits.
C6_Original ==
    rec.type = "Bone" =>
        /\ rec.addition <=> (Bit(BoneFlags, 256) \/ Bit(BoneFlags, 512))
        /\ rec.fixed_pole <=> Bit(BoneFlags, 1024)
        /\ rec.local_pole <=> Bit(BoneFlags, 2048)
        /\ rec.external_parent <=> Bit(BoneFlags, 8192)
        /\ rec.ik <=> Bit(BoneFlags, 32)
        /\ BoneBytes

\* C6 amended: the external parent is Some exactly when bit 0x2000 is set and
\* the 32-bit value read for it is not negative (a negative value is read, all
\* 4 bytes of it, and decodes to None); the rest is as stated, the addition
\* being enabled by either of the bits 0x0100 and 0x0200.
C6_BoneFlags ==
    rec.type = "Bone" =>
        /\ rec.addition <=> (Bit(BoneFlags, 256) \/ Bit(BoneFlags, 512))
        /\ rec.fixed_pole <=> Bit(BoneFlags, 1024)
        /\ rec.local_pole <=> Bit(BoneFlags, 2048)
        /\ rec.external_parent <=>
              \E i \in Reads : log[i].what = "external_parent" /\ log[i].v >= 0
        /\ Bit(BoneFlags, 8192) <=> \E i \in Reads : log[i].what = "external_parent"
        /\ rec.ik <=> Bit(BoneFlags, 32)
        /\ BoneBytes

C6_Witness ==
    /\ rec.type = "Bone" /\ BoneFlags = 8192
    /\ \E i \in Reads : log[i].what = "external_parent" /\ log[i].v < 0
    /\ ~rec.external_parent

\* C7: a material whose index count is no multiple of 3 fails the decode with
\* Error::InvalidData and produces no material, so every material of a decoded
\* model has index_count mod 3 = 0.
C7_IndexCount ==
    /\ \A i \in Reads :
          (log[i].what = "index_count" /\ log[i].v % 3 # 0) =>
              /\ ret = InvalidData("material::index_count")
              /\ rec = NoRec /\ pmx_materials = <<>>
    /\ \A i \in DOMAIN pmx_materials : pmx_materials[i] % 3 = 0

C7_Witness ==
    /\ \E i \in Reads : log[i].what = "index_count" /\ log[i].v = 4
    /\ ret = InvalidData("material::index_count")

\* what the header must hold at a field for the decode to go on
HeaderFieldOk(e) ==
    CASE e.what = "magic" -> e.v = <<80, 77, 88, 32>>
      [] e.what = "bytes" -> e.v = 8
      [] e.what = "encoding" -> e.v \in {0, 1}
      [] e.what = "index_size" -> e.v \in {1, 2, 4}
      [] OTHER -> TRUE

\* C8: with its 17 bytes available the header decodes exactly when the magic
\* is "PMX ", the config-byte count is 8, the encoding selector is 0 or 1 and
\* each of the six width bytes is 1, 2 or 4; every violation is
\* Error::InvalidData; the version is accepted whatever its value, and nothing
\* yields Error::UnsupportedVersion.
C8_Header ==
    /\ (started = <<"header">> /\ ~HitEof) =>
          IF \A i \in Reads : HeaderFieldOk(log[i])
          THEN /\ ret = NoRet /\ pc = "model_info"
               /\ Bytes(log) = 17
               /\ Cardinality({i \in Reads : log[i].what = "index_size"}) = 6
               /\ rec.type = "Header"
          ELSE /\ ret.tag = "InvalidData" /\ rec = NoRec
               /\ ~HeaderFieldOk(log[Len(log) - 1])
    /\ ret.tag # "UnsupportedVersion"

C8_Witness ==
    /\ started = <<"header">> /\ pc = "model_info"
    /\ rec.type = "Header" /\ rec.version = <<255, 255, 255, 255>>

IndexFields == SignedFields \cup {"vertex_index"}

\* C9: every reference of a kind, anywhere in the stream, takes as many bytes
\* as the header's width byte for that kind; the entries of the face section
\* are vertex references.
C9_UniformWidth ==
    (started # <<>> /\ started[1] = "header" /\ Len(started) > 1) =>
        \A i \in Reads :
            /\ log[i].what \in IndexFields => log[i].n = this[log[i].what]
            /\ log[i].what = "face" => log[i].n = this.vertex_index

\* C10 as stated: when read returns Ok the header and the ten sections have
\* consumed every byte of the stream: none is left unread.
C10_Original == ret.tag = "Ok" => unread = 0

\* C10 amended: when read returns Ok the header and the ten sections have all
\* been decoded, in order, the joints section last; read does not look for the
\* end of the stream, and bytes that follow the joints section stay unread.
C10_AllSections ==
    ret.tag = "Ok" =>
        /\ started = Order
        /\ started[Len(started)] = "joints"
        /\ rec.type \in {"Joint", "len"}
        /\ unread >= 0

C10_Witness == ret.tag = "Ok" /\ unread > 0 /\ rec.type = "Joint"

\* the extra UV 4-vectors a vertex record read: its reads of 16 bytes
ExtraUvReads == {i \in Reads : log[i].what = "vec" /\ log[i].n = 16}

\* C11: in every successfully decoded model the header's extended_uv value N
\* is between 0 and 4, and every decoded vertex holds exactly N extra UV
\* 4-vectors, taking 16*N bytes.
C11_ExtendedUv ==
    /\ ret.tag = "Ok" => this.extended_uv \in 0..4
    /\ rec.type = "Vertex" =>
          /\ rec.extended_uv = this.extended_uv
          /\ Cardinality(ExtraUvReads) = this.extended_uv

\* one iteration of each loop nested in a record takes at least one byte
InnerLoopsAdvance ==
    /\ Bytes(Cut(read_vec4)) > 0
    /\ \A limit \in {1, 2} : Bytes(Cut(ik_link_steps(limit, this))) > 0
    /\ \A kind \in 0..8, op \in 0..2 : Bytes(Cut(morph_element_steps(kind, op, this))) > 0
    /\ \A e \in 0..2 : Bytes(Cut(display_element_steps(e, this))) > 0

\* the decoders still to run: the sections from pc on, each with its count and
\* at most MaxCount records, less what the current section has done
Position(sec) == CHOOSE i \in DOMAIN Order : Order[i] = sec
Remaining ==
    IF pc = "done" THEN 0
    ELSE LET sections == Len(Order) + 1 - Position(pc)
         IN  IF left = -1 THEN sections * (MaxCount + 2)
             ELSE (sections - 1) * (MaxCount + 2) + left

\* C12: every decode call ends, with a model or an error: every step of the
\* decode leaves less to do, a call that has stopped has returned Ok,
\* Error::InvalidData or Error::Io, and every iteration of a count-driven loop
\* (a record of a section, an element of a loop nested in a record) consumes
\* at least one byte of the stream or fails.
C12_Terminates ==
    /\ [][Remaining' < Remaining]_vars
    /\ [](pc # "done" => ENABLED Next)
    /\ [](pc = "done" => ret.tag \in {"Ok", "InvalidData", "Io"})
    /\ [][Failed' \/ Bytes(log') > 0]_vars
    /\ []InnerLoopsAdvance

\* the header has decoded: the decode is past it and did not stop in it
HeaderDecoded == started # <<>> /\ ~(started = <<"header">> /\ pc = "done")

\* the scratch buffers in the order of the header's width bytes
BufferLens(t) ==
    <<t.vertex_index, t.tex_index, t.mat_index, t.bone_index, t.morph_index, t.rig_index>>

IsIndexSize(e) == e.k = "rd" /\ e.what = "index_size"
\* the width bytes a decode of the header read
WidthBytes(l) == [i \in 1..Len(SelectSeq(l, IsIndexSize)) |-> SelectSeq(l, IsIndexSize)[i].v]

\* C13: whenever an index decoder runs, the scratch buffer of its kind has
\* length 1, 2 or 4, the header's width byte for the kind (the unreachable!()
\* arms are not reached); the six buffers are sized once, when the header has
\* decoded and before the first section, and keep their lengths; no index is
\* decoded before the header has decoded or when it fails.
C13_Buffers ==
    /\ [](\A i \in DOMAIN log :
             log[i].what \in IndexFields =>
                 /\ HeaderDecoded
                 /\ log[i].n = this[log[i].what]
                 /\ log[i].n \in {1, 2, 4})
    /\ [](IF HeaderDecoded
          THEN \A i \in 1..6 : BufferLens(this)[i] \in {1, 2, 4}
          ELSE BufferLens(this) = <<0, 0, 0, 0, 0, 0>>)
    /\ [][IF pc = "header" /\ pc' = "model_info"
          THEN BufferLens(this') = WidthBytes(log')
          ELSE this' = this]_vars

C13_Witness ==
    /\ rec.type = "Morph"
    /\ this.vertex_index = 4
    /\ \E i \in Reads : log[i].what = "vertex_index" /\ log[i].n = 4

====
